---- MODULE Spec2Model ----
(***************************************************************************)
(* LoanCalculatorEngine (src/src/index.js): the per-period amortization    *)
(* loop of calculate(), its context builder, the repayment-recompute rule, *)
(* the loan/savings balance formulas, the early exit, and the totals and   *)
(* interest-balance passes.                                                *)
(*                                                                         *)
(* JavaScript numbers are modelled as exact rationals <<n, d>> in lowest   *)
(* terms with d > 0; <<0, 0>> stands for an absent (undefined) field.      *)
(***************************************************************************)
EXTENDS Integers, Sequences, FiniteSets, TLC

(***************************************************************************)
(* Bounds of the model.                                                    *)
(***************************************************************************)
\* Largest whole effective term (number of periods) of a base context.
MaxTerm == 3
\* Number of times calculate() is called on the engine.
MaxCalls == 2

(***************************************************************************)
(* Number arithmetic.                                                      *)
(***************************************************************************)
Abs(x) == IF x < 0 THEN -x ELSE x

RECURSIVE GCD(_, _)
GCD(a, b) == IF b = 0 THEN a ELSE GCD(b, a % b)

\* The number n/d in lowest terms.
Rat(n, d) ==
    LET s == IF d < 0 THEN -1 ELSE 1
        g == GCD(Abs(n), Abs(d))
    IN  <<(s * n) \div g, (s * d) \div g>>

Num(k) == <<k, 1>>
Zero == <<0, 1>>
One == <<1, 1>>
\* The value of a property that was never set.
Undefined == <<0, 0>>

Add(x, y) == Rat(x[1] * y[2] + y[1] * x[2], x[2] * y[2])
Sub(x, y) == Rat(x[1] * y[2] - y[1] * x[2], x[2] * y[2])
Mul(x, y) == Rat(x[1] * y[1], x[2] * y[2])
Div(x, y) == Rat(x[1] * y[2], x[2] * y[1])
\* x > y
Gt(x, y) == x[1] * y[2] > y[1] * x[2]
\* x <= y
Le(x, y) == x[1] * y[2] <= y[1] * x[2]
\* Math.max(x, y)
Max(x, y) == IF Gt(y, x) THEN y ELSE x
\* x || 0
OrZero(x) == IF x = Undefined \/ x = Zero THEN Zero ELSE x

\* Math.pow(x, k) for a whole exponent k >= 0.
RECURSIVE Pow(_, _)
Pow(x, k) == IF k = 0 THEN One ELSE Mul(x, Pow(x, k - 1))

(***************************************************************************)
(* Formula library: the level payment that amortizes `principal` over      *)
(* `effTerm` periods at the per-period rate `effInterestRate`.             *)
(***************************************************************************)
pmt(principal, effInterestRate, effTerm) ==
    IF effInterestRate = Zero
    THEN Div(principal, effTerm)
    ELSE LET part1 == Pow(Add(One, effInterestRate), effTerm[1])
         IN  Div(Mul(principal, Mul(effInterestRate, part1)), Sub(part1, One))

(***************************************************************************)
(* Engine state.                                                           *)
(***************************************************************************)
VARIABLES
    config,            \* this.__config: [isSavingsMode]
    baseContext,       \* this.__context: the BaseContext set by the user
    operators,         \* the operators registered on the engine, in order
    contextList,       \* this.contextList  (<<>> while null)
    amortizationList,  \* this.amortizationList  (<<>> while null)
    totals,            \* this.totals
    period,            \* the loop variable of calculate()
    pc,                \* position inside calculate()
    recomputed,        \* periods of this run at which __calculateRepayment ran
    results            \* the values returned by the calls of calculate() so far

vars == <<config, baseContext, operators, contextList, amortizationList,
          totals, period, pc, recomputed, results>>

\* LoanCalculatorEngine.repaymentType
interestOnly == "IO"
principalAndInterest == "PI"

\* this.totals = null
Null == [null |-> TRUE]

Last(s) == s[Len(s)]

(***************************************************************************)
(* Operators: each is active on the periods startPeriod..endPeriod         *)
(* (inclusive) and writes one field of the period's context.               *)
(***************************************************************************)
getOperatorsAt(p) ==
    SelectSeq(operators, LAMBDA o : o.startPeriod <= p /\ p <= o.endPeriod)

process(operator, context) ==
    [context EXCEPT ![operator.field] = operator.value]

RECURSIVE forEachProcess(_, _)
forEachProcess(ops, context) ==
    IF ops = <<>> THEN context
    ELSE forEachProcess(Tail(ops), process(Head(ops), context))

(***************************************************************************)
(* Summary items.                                                          *)
(***************************************************************************)
\* new ContextItem(period, context): a copy of the base context's fields
\* under the given period; the operator fields are not set.
ContextItem(p, context) ==
    [period            |-> p,
     principal         |-> context.principal,
     effInterestRate   |-> context.effInterestRate,
     effTerm           |-> context.effTerm,
     repayment         |-> context.repayment,
     repaymentType     |-> context.repaymentType,
     fee               |-> Undefined,
     offset            |-> Undefined,
     lumpSum           |-> Undefined,
     effExtraRepayment |-> Undefined]

\* new AmortizationItem(period)
AmortizationItem(p) ==
    [period           |-> p,
     principalBalance |-> Zero,
     interestBalance  |-> Zero,
     interestPaid     |-> Zero,
     principalPaid    |-> Zero,
     repayment        |-> Zero]

\* Faulty variant of the copy: the item shares the base context's fields, so
\* what is written to the item is written to the base context.
contextSharedWithItem(base, item) ==
    [base EXCEPT !.principal = item.principal]

\* The base context after a ContextItem was built from it and written to:
\* _.merge copies the fields, so the base context is not touched.
contextAfterMerge(base, item) == base

(***************************************************************************)
(* __calculateContextAt(period)                                            *)
(***************************************************************************)
calculateContextAt(p) ==
    LET prevAmortization == Last(amortizationList)
        context == [ContextItem(p, baseContext)
                        EXCEPT !.principal = prevAmortization.principalBalance]
    IN  forEachProcess(getOperatorsAt(p), context)

(***************************************************************************)
(* __calculateRepayment(period, context)                                   *)
(***************************************************************************)
calculateRepayment(p, context) ==
    LET principal == context.principal
        effInterestRate == context.effInterestRate
        effTermRemaining == Add(Sub(context.effTerm, Num(p)), One)
        isInterestOnly == context.repaymentType = interestOnly
    IN  IF isInterestOnly
        THEN Mul(principal, effInterestRate)
        ELSE pmt(principal, effInterestRate, effTermRemaining)

(***************************************************************************)
(* __calculateAmortizationAt(period, context)                              *)
(***************************************************************************)
\* Faulty variants of the recompute decision: one misses a changed rate, the
\* other recomputes in every period of a loan.
updatesRepaymentInitialOnly(p, context) ==
    ~config.isSavingsMode /\ p = 1

updatesRepaymentAlways(p, context) ==
    ~config.isSavingsMode

\* The recompute decision of the scheduled repayment.
updatesRepayment(p, context) ==
    LET prevContext == Last(contextList)
        isInitialPeriod == p = 1
        hasChangedEffInterestRate ==
            prevContext.effInterestRate # context.effInterestRate
    IN  ~config.isSavingsMode /\ (isInitialPeriod \/ hasChangedEffInterestRate)

\* The scheduled repayment, stored in the context.
scheduledRepayment(p, context) ==
    IF updatesRepayment(p, context)
    THEN calculateRepayment(p, context)
    ELSE Last(contextList).repayment

\* Faulty variant of the payoff test: against principal + interestPaid.
exceedsPayoff(repayment, context, interestPaid) ==
    Gt(repayment, Add(context.principal, interestPaid))

\* The loan-mode test that replaces the repayment by the payoff amount.
exceedsPrincipal(repayment, context, interestPaid) ==
    Gt(repayment, context.principal)

\* The amortization item of the period; context.repayment is already set.
calculateAmortizationAt(p, context) ==
    LET adjusted == Add(Add(context.repayment,
                            OrZero(context.effExtraRepayment)),
                        OrZero(context.lumpSum))
        offset == OrZero(context.offset)
        consideredPrincipal == Sub(context.principal, offset)
        interestPaid ==
            Max(Mul(consideredPrincipal, context.effInterestRate), Zero)
        repayment ==
            IF ~config.isSavingsMode
               /\ exceedsPrincipal(adjusted, context, interestPaid)
            THEN Add(context.principal, interestPaid)
            ELSE adjusted
        principalPaid ==
            IF config.isSavingsMode THEN Zero ELSE Sub(repayment, interestPaid)
        principalBalance ==
            IF config.isSavingsMode
            THEN Add(Add(context.principal, repayment), interestPaid)
            ELSE Sub(context.principal, principalPaid)
    IN  [AmortizationItem(p) EXCEPT
            !.repayment = Add(repayment, OrZero(context.fee)),
            !.interestPaid = interestPaid,
            !.principalPaid = principalPaid,
            !.principalBalance = principalBalance]

\* Faulty variants of the early exit: a strict comparison, a missing mode
\* test, an inverted mode test.
breaksLoopStrict(amortization) ==
    ~config.isSavingsMode /\ Gt(Zero, amortization.principalBalance)

breaksLoopAnyMode(amortization) ==
    Le(amortization.principalBalance, Zero)

breaksLoopSavingsOnly(amortization) ==
    config.isSavingsMode /\ Le(amortization.principalBalance, Zero)

\* The early exit of the loop.
breaksLoop(amortization) ==
    ~config.isSavingsMode /\ Le(amortization.principalBalance, Zero)

(***************************************************************************)
(* __calculateTotals and __calculateInterestBalance                        *)
(***************************************************************************)
RECURSIVE reduceTotals(_, _)
reduceTotals(previous, list) ==
    IF list = <<>> THEN previous
    ELSE reduceTotals(
            [repayment    |-> Add(previous.repayment, Head(list).repayment),
             interestPaid |-> Add(previous.interestPaid, Head(list).interestPaid)],
            Tail(list))

\* Faulty variant of the totals: the last item is left out of the sums.
calculateTotalsButLast(list) ==
    IF Len(list) = 1 THEN Head(list)
    ELSE reduceTotals(Head(list), SubSeq(list, 2, Len(list) - 1))

\* Array.prototype.reduce without an initial value: the first item is the
\* first accumulator, and the result of a one-item list is that very item.
calculateTotals(list) == reduceTotals(Head(list), Tail(list))

\* The running balance after the first k items of the list.
RECURSIVE runningInterestBalance(_, _, _)
runningInterestBalance(list, k, start) ==
    IF k = 0 THEN start
    ELSE LET before == runningInterestBalance(list, k - 1, start)
         IN  IF config.isSavingsMode
             THEN Sub(before, Mul(list[k].interestPaid, Num(-1)))
             ELSE Sub(before, list[k].interestPaid)

\* Faulty variant of the interest-balance pass: seeded with 0 in both modes.
calculateInterestBalanceFromZero(list, sums) ==
    [k \in 1..Len(list) |->
        [list[k] EXCEPT
            !.interestBalance = runningInterestBalance(list, k, Zero)]]

calculateInterestBalance(list, sums) ==
    LET start == IF config.isSavingsMode THEN Zero ELSE sums.interestPaid
    IN  [k \in 1..Len(list) |->
            [list[k] EXCEPT
                !.interestBalance = runningInterestBalance(list, k, start)]]

(***************************************************************************)
(* The inputs of the model.                                                *)
(***************************************************************************)
Principals == {Num(-2), Zero, Num(4)}
Rates == {Rat(-1, 2), Zero, Rat(1, 2), One}
Repayments == {Zero, Num(2)}
WholeTerms == {Num(k) : k \in 0..MaxTerm}
\* Terms that are not a whole number of periods; pmt is only modelled for
\* whole exponents, so they are used where pmt is never called.
FractionalTerms == {Rat(2 * k - 1, 2) : k \in 1..MaxTerm}

BaseContexts ==
    [principal       : Principals,
     effInterestRate : Rates,
     effTerm         : WholeTerms \cup FractionalTerms,
     repayment       : Repayments,
     repaymentType   : {interestOnly, principalAndInterest}]

Configs == [isSavingsMode : BOOLEAN]

\* A run calls pmt only in loan mode with principal-and-interest repayments.
CallsPmt(cfg, base) ==
    ~cfg.isSavingsMode /\ base.repaymentType = principalAndInterest

OperatorValues ==
    [fee               |-> {Num(1)},
     offset            |-> {Num(2)},
     lumpSum           |-> {Num(-1), Num(3)},
     effInterestRate   |-> {Zero, One},
     effExtraRepayment |-> {Num(1)}]

\* The operator types in the order the constructor registers them.
operatorTypes ==
    <<"fee", "offset", "lumpSum", "effInterestRate", "effExtraRepayment">>

typeIndex(f) == CHOOSE i \in DOMAIN operatorTypes : operatorTypes[i] = f

\* The last active period of an operator starting at period s: a fee or a
\* lump sum is a one-off, an offset or an extra repayment runs on to the end
\* of the term, a rate change is either.
EndPeriods(f, s) ==
    CASE f \in {"fee", "lumpSum"} -> {s}
      [] f \in {"offset", "effExtraRepayment"} -> {MaxTerm}
      [] OTHER -> {s, MaxTerm}

Operators ==
    UNION {{o \in [field       : {f},
                   startPeriod : 1..MaxTerm,
                   endPeriod   : 1..MaxTerm,
                   value       : OperatorValues[f]] :
                o.endPeriod \in EndPeriods(f, o.startPeriod)} :
           f \in DOMAIN OperatorValues}

\* No operator, one operator, or two operators of different types.
OperatorLists ==
    {<<>>}
    \cup {<<o>> : o \in Operators}
    \cup {<<o1, o2>> : <<o1, o2>> \in
            {pair \in Operators \X Operators :
                typeIndex(pair[1].field) < typeIndex(pair[2].field)}}

(***************************************************************************)
(* The engine after construction, context(options) and the registration    *)
(* of the operators: no result yet.                                        *)
(***************************************************************************)
Init ==
    /\ config \in Configs
    /\ baseContext \in BaseContexts
    /\ CallsPmt(config, baseContext) => baseContext.effTerm \in WholeTerms
    /\ config.isSavingsMode => baseContext.repaymentType = principalAndInterest
    /\ ~config.isSavingsMode => baseContext.repayment = Num(2)
    /\ operators \in OperatorLists
    /\ contextList = <<>>
    /\ amortizationList = <<>>
    /\ totals = Null
    /\ period = 0
    /\ pc = "idle"
    /\ recomputed = {}
    /\ results = <<>>

(***************************************************************************)
(* calculate()                                                             *)
(***************************************************************************)
\* __startCalculation: __resetResults, then __calculateInitialPeriod; the
\* loop variable is set to 1.
\* Faulty variant of __resetResults: the lists of the last call are kept.
resetListKeep(list) == list

resetList(list) == <<>>

StartCalculation ==
    /\ pc \in {"idle", "done"}
    /\ Len(results) < MaxCalls
    /\ LET context == ContextItem(0, baseContext)
           amortization ==
               [AmortizationItem(0) EXCEPT !.principalBalance = context.principal]
       IN  /\ contextList' = Append(resetList(contextList), context)
           /\ amortizationList' = Append(resetList(amortizationList), amortization)
           /\ baseContext' = contextAfterMerge(baseContext, context)
    /\ totals' = Null
    /\ period' = 1
    /\ recomputed' = {}
    /\ pc' = "loop"
    /\ UNCHANGED <<config, operators, results>>

\* One iteration of the loop: the context and the amortization item of the
\* period are computed and pushed; the loop ends here when it breaks.
CalculatePeriod ==
    /\ pc = "loop"
    /\ Le(Num(period), baseContext.effTerm)
    /\ LET built == calculateContextAt(period)
           context == [built EXCEPT !.repayment = scheduledRepayment(period, built)]
           amortization == calculateAmortizationAt(period, context)
       IN  /\ contextList' = Append(contextList, context)
           /\ amortizationList' = Append(amortizationList, amortization)
           /\ baseContext' = contextAfterMerge(baseContext, context)
           /\ recomputed' = IF updatesRepayment(period, built)
                            THEN recomputed \cup {period} ELSE recomputed
           /\ IF breaksLoop(amortization)
              THEN pc' = "end" /\ period' = period
              ELSE pc' = "loop" /\ period' = period + 1
    /\ UNCHANGED <<config, operators, totals, results>>

\* The loop condition fails: period > effTerm.
ExitLoop ==
    /\ pc = "loop"
    /\ ~Le(Num(period), baseContext.effTerm)
    /\ pc' = "end"
    /\ UNCHANGED <<config, baseContext, operators, contextList,
                   amortizationList, totals, period, recomputed, results>>

\* __endCalculation and the return of the result.
EndCalculation ==
    /\ pc = "end"
    /\ LET sums == calculateTotals(amortizationList)
           list == calculateInterestBalance(amortizationList, sums)
           \* the total of a one-item list is the item itself, which the
           \* interest-balance pass then writes to
           total == IF Len(list) = 1 THEN list[1] ELSE sums
       IN  /\ totals' = total
           /\ amortizationList' = list
           /\ results' = Append(results,
                                [totals           |-> total,
                                 contextList      |-> contextList,
                                 amortizationList |-> list])
    /\ pc' = "done"
    /\ UNCHANGED <<config, baseContext, operators, contextList, period, recomputed>>

Next ==
    \/ StartCalculation
    \/ CalculatePeriod
    \/ ExitLoop
    \/ EndCalculation

Spec == Init /\ [][Next]_vars

(***************************************************************************)
(* Properties.                                                             *)
(***************************************************************************)
\* The results calculate() has returned.
Returned == {results[i] : i \in DOMAIN results}

Lt(x, y) == Gt(y, x)
Ge(x, y) == Le(y, x)
IsWhole(x) == x[2] = 1

\* The principal, the rates and every operator's contribution are >= 0.
NonNegativeInputs ==
    /\ Ge(baseContext.principal, Zero)
    /\ Ge(baseContext.effInterestRate, Zero)
    /\ \A k \in DOMAIN operators : Ge(operators[k].value, Zero)

\* The periods of both lists are 0, 1, 2, ... and the lists are aligned.
Aligned(r) ==
    /\ Len(r.contextList) = Len(r.amortizationList)
    /\ \A i \in 1..Len(r.amortizationList) :
          /\ r.amortizationList[i].period = i - 1
          /\ r.contextList[i].period = i - 1

\* C1: in loan mode a returned run stops at the first period >= 1 whose
\* principalBalance is <= 0: that item is the last of both lists and every
\* earlier item of a period >= 1 has principalBalance > 0; when no period
\* reaches balance <= 0 the lists end at the last whole period <= effTerm.
C1_StopsAtFirstPaidOff ==
    ~config.isSavingsMode =>
        \A r \in Returned :
            LET list == r.amortizationList
                n == Len(list)
            IN  /\ Aligned(r)
                /\ \A i \in 2..(n - 1) : Gt(list[i].principalBalance, Zero)
                /\ \/ n >= 2 /\ Le(list[n].principalBalance, Zero)
                   \/ /\ Le(Num(n - 1), baseContext.effTerm)
                      /\ Lt(baseContext.effTerm, Num(n))

\* A loan-mode run that stopped before the end of its term.
C1_Witness ==
    /\ ~config.isSavingsMode
    /\ \E r \in Returned :
          LET n == Len(r.amortizationList)
          IN  /\ n >= 3
              /\ Le(r.amortizationList[n].principalBalance, Zero)
              /\ Le(Num(n), baseContext.effTerm)

\* C2: in savings mode a returned run over a whole effTerm >= 0 has exactly
\* effTerm + 1 entries in each list, whatever the balances are.
C2_SavingsRunsFullTerm ==
    (config.isSavingsMode /\ IsWhole(baseContext.effTerm)) =>
        \A r \in Returned :
            /\ Aligned(r)
            /\ Num(Len(r.amortizationList)) = Add(baseContext.effTerm, One)
            /\ Num(Len(r.contextList)) = Add(baseContext.effTerm, One)

\* A savings-mode run that went on after a period with balance <= 0.
C2_Witness ==
    /\ config.isSavingsMode
    /\ IsWhole(baseContext.effTerm)
    /\ \E r \in Returned :
          \E i \in 2..(Len(r.amortizationList) - 1) :
              Le(r.amortizationList[i].principalBalance, Zero)

\* The repayment of period index i before the fee is added, and the
\* scheduled repayment plus extra repayment and lump sum.
PreFeeRepayment(i) ==
    Sub(amortizationList[i].repayment, OrZero(contextList[i].fee))

AdjustedRepayment(i) ==
    Add(Add(contextList[i].repayment, OrZero(contextList[i].effExtraRepayment)),
        OrZero(contextList[i].lumpSum))

Min(x, y) == IF Gt(x, y) THEN y ELSE x

\* C3: in loan mode, for every period >= 1, the repayment before the fee is
\* min(adjusted repayment, principal + interestPaid), principalPaid is that
\* repayment less interestPaid, and principalBalance is principal less
\* principalPaid.  Stated for principal, rates and contributions >= 0, the
\* inputs of an ordinary loan.
C3_ClampedToPayoff ==
    (~config.isSavingsMode /\ NonNegativeInputs) =>
        \A i \in 2..Len(amortizationList) :
            LET context == contextList[i]
                item == amortizationList[i]
                payoff == Add(context.principal, item.interestPaid)
            IN  /\ PreFeeRepayment(i) = Min(AdjustedRepayment(i), payoff)
                /\ item.principalPaid = Sub(PreFeeRepayment(i), item.interestPaid)
                /\ item.principalBalance = Sub(context.principal, item.principalPaid)

\* C4: in loan mode, with principal, rates and operator contributions all
\* >= 0, principalBalance never increases from one item of the returned list
\* to the next.
C4_BalanceNonIncreasing ==
    (~config.isSavingsMode /\ NonNegativeInputs) =>
        \A r \in Returned :
            \A i \in 2..Len(r.amortizationList) :
                Le(r.amortizationList[i].principalBalance,
                   r.amortizationList[i - 1].principalBalance)

\* A loan whose rate an operator raised in mid-term and whose balance went
\* down in a later period.
C4_Witness ==
    /\ ~config.isSavingsMode
    /\ NonNegativeInputs
    /\ \E r \in Returned :
          \E i \in 3..Len(r.amortizationList) :
              /\ Gt(r.contextList[i].effInterestRate,
                    r.contextList[i - 1].effInterestRate)
              /\ Lt(r.amortizationList[i].principalBalance,
                    r.amortizationList[i - 1].principalBalance)

RateOperators ==
    {operators[k] : k \in {j \in DOMAIN operators :
                              operators[j].field = "effInterestRate"}}

\* C5: the scheduled repayment stored in the context of period p is
\* recomputed if and only if the engine is in loan mode and p = 1 or the
\* effective rate differs from the previous period's; otherwise it is the
\* previous context's repayment.  So without a rate change only period 1
\* recomputes, a rate change that starts at period k and stays recomputes at
\* k and at no other period after 1, and in savings mode every stored
\* repayment is the configured one.
C5_RecomputeRule ==
    /\ \A i \in 2..Len(contextList) :
          /\ (i - 1) \in recomputed <=>
                /\ ~config.isSavingsMode
                /\ \/ i - 1 = 1
                   \/ contextList[i].effInterestRate
                          # contextList[i - 1].effInterestRate
          /\ (i - 1) \notin recomputed =>
                contextList[i].repayment = contextList[i - 1].repayment
    /\ recomputed \subseteq {i - 1 : i \in 2..Len(contextList)}
    /\ RateOperators = {} => recomputed \subseteq {1}
    /\ \A o \in RateOperators :
          (/\ ~config.isSavingsMode
           /\ o.endPeriod = MaxTerm
           /\ o.startPeriod > 1
           /\ o.value # baseContext.effInterestRate) =>
              /\ recomputed \subseteq {1, o.startPeriod}
              /\ Len(contextList) > o.startPeriod => o.startPeriod \in recomputed
    /\ config.isSavingsMode =>
          \A i \in 1..Len(contextList) :
              contextList[i].repayment = baseContext.repayment

\* A finished loan with a lump sum in period 2 and a rate change from period
\* 3 onward: the repayment was recomputed at periods 1 and 3 only.
C5_Witness ==
    /\ pc = "done"
    /\ ~config.isSavingsMode
    /\ recomputed = {1, 3}
    /\ \E k \in DOMAIN operators :
          operators[k].field = "lumpSum" /\ operators[k].startPeriod = 2
    /\ contextList[3].repayment = contextList[2].repayment
    /\ contextList[4].repayment # contextList[3].repayment

\* C6: in a returned loan-mode list interestBalance starts at
\* totals.interestPaid, goes down by each item's interestPaid, never
\* increases, and is 0 at the last item; in savings mode it starts at 0 and
\* goes up by each item's interestPaid.
C6_InterestBalance ==
    \A r \in Returned :
        LET list == r.amortizationList
            n == Len(list)
        IN  IF config.isSavingsMode
            THEN /\ list[1].interestBalance = Zero
                 /\ \A i \in 2..n :
                       list[i].interestBalance =
                           Add(list[i - 1].interestBalance, list[i].interestPaid)
            ELSE /\ list[1].interestBalance = r.totals.interestPaid
                 /\ \A i \in 2..n :
                       /\ list[i].interestBalance =
                              Sub(list[i - 1].interestBalance, list[i].interestPaid)
                       /\ Le(list[i].interestBalance, list[i - 1].interestBalance)
                 /\ list[n].interestBalance = Zero

\* A loan that stopped early after paying interest in two periods.
C6_Witness ==
    /\ ~config.isSavingsMode
    /\ \E r \in Returned :
          LET list == r.amortizationList
              n == Len(list)
          IN  /\ n >= 3
              /\ Le(Num(n), baseContext.effTerm)
              /\ Gt(list[2].interestPaid, Zero)
              /\ Gt(list[3].interestPaid, Zero)
              /\ Gt(list[1].interestBalance, list[2].interestBalance)

RECURSIVE SumOf(_, _)
SumOf(list, field) ==
    IF list = <<>> THEN Zero
    ELSE Add(Head(list)[field], SumOf(Tail(list), field))

\* C7: the returned totals are the sums of repayment and of interestPaid over
\* all returned items, and each item's repayment is the period's cash flow
\* plus the period's fee.
C7_TotalsAreSums ==
    \A r \in Returned :
        /\ r.totals.repayment = SumOf(r.amortizationList, "repayment")
        /\ r.totals.interestPaid = SumOf(r.amortizationList, "interestPaid")
        /\ \A i \in 2..Len(r.amortizationList) :
              LET context == r.contextList[i]
                  item == r.amortizationList[i]
                  cashFlow ==
                      IF config.isSavingsMode
                      THEN Add(Add(context.repayment,
                                   OrZero(context.effExtraRepayment)),
                               OrZero(context.lumpSum))
                      ELSE Add(item.principalPaid, item.interestPaid)
              IN  item.repayment = Add(cashFlow, OrZero(context.fee))

\* A loan with a fee that stopped early: the fee is in the total.
C7_Witness ==
    /\ ~config.isSavingsMode
    /\ \E r \in Returned :
          LET n == Len(r.amortizationList)
          IN  /\ n >= 2
              /\ Le(Num(n), baseContext.effTerm)
              /\ \E i \in 2..n :
                    /\ Gt(OrZero(r.contextList[i].fee), Zero)
                    /\ Gt(r.amortizationList[i].interestPaid, Zero)
              /\ Gt(r.totals.repayment, r.totals.interestPaid)

\* A run over a term below 1: the only item is that of period 0.
C7_WitnessSingle ==
    \E r \in Returned : Len(r.amortizationList) = 1

\* C8: a loan with principal 0, effTerm >= 1 and no operators returns the
\* items of periods 0 and 1 only, with repayment, interestPaid,
\* principalPaid and principalBalance of period 1 all 0 and totals of 0.
C8_ZeroPrincipal ==
    (/\ ~config.isSavingsMode
     /\ baseContext.principal = Zero
     /\ Ge(baseContext.effTerm, One)
     /\ operators = <<>>) =>
        \A r \in Returned :
              /\ Len(r.amortizationList) = 2
              /\ Len(r.contextList) = 2
              /\ r.amortizationList[2] = AmortizationItem(1)
              /\ r.totals.repayment = Zero
              /\ r.totals.interestPaid = Zero

\* A returned zero-principal loan with a term of two periods or more.
C8_Witness ==
    /\ ~config.isSavingsMode
    /\ baseContext.principal = Zero
    /\ Ge(baseContext.effTerm, Num(2))
    /\ baseContext.effInterestRate # Zero
    /\ operators = <<>>
    /\ results # <<>>

\* C9: two calls of calculate() in a row return equal results; a call starts
\* from lists holding the period-0 entries only, and leaves the base context
\* as it was when the call seeded period 0 from it.
C9_Idempotent ==
    /\ \A i, j \in DOMAIN results : results[i] = results[j]
    /\ \A r \in Returned : r.contextList[1] = ContextItem(0, baseContext)
    /\ pc = "loop" => /\ Len(contextList) = period
                      /\ Len(amortizationList) = period
    /\ (pc = "loop" /\ period = 1) =>
          /\ contextList = <<ContextItem(0, baseContext)>>
          /\ amortizationList[1].principalBalance = baseContext.principal

\* Two calls have returned, each with operators at work over several periods.
C9_Witness ==
    /\ Len(results) >= 2
    /\ Len(results[2].amortizationList) >= 3
    /\ operators # <<>>
    /\ results[2].amortizationList[3].principalBalance # baseContext.principal

\* C10: in loan mode every item of a period >= 1 has principalBalance >= 0
\* and interestPaid >= 0: an adjusted repayment above the opening principal
\* gives balance 0, one at or below it leaves at least interestPaid; so the
\* balance that triggers the early exit is exactly 0.
C10_BalanceNeverNegative ==
    ~config.isSavingsMode =>
        \A i \in 2..Len(amortizationList) :
            LET context == contextList[i]
                item == amortizationList[i]
            IN  /\ Ge(item.principalBalance, Zero)
                /\ Ge(item.interestPaid, Zero)
                /\ Gt(AdjustedRepayment(i), context.principal) =>
                      item.principalBalance = Zero
                /\ Le(AdjustedRepayment(i), context.principal) =>
                      Ge(item.principalBalance, item.interestPaid)
                /\ Le(item.principalBalance, Zero) =>
                      item.principalBalance = Zero

\* An early exit on a repayment strictly between the opening principal and
\* principal + interestPaid, from a negative opening principal or not.
C10_Witness ==
    /\ ~config.isSavingsMode
    /\ pc = "end"
    /\ Len(amortizationList) >= 2
    /\ Lt(Num(Len(amortizationList)), Add(baseContext.effTerm, One))
    /\ LET i == Len(amortizationList)
       IN  /\ Gt(AdjustedRepayment(i), contextList[i].principal)
           /\ Lt(AdjustedRepayment(i),
                 Add(contextList[i].principal, amortizationList[i].interestPaid))
           /\ amortizationList[i].principalBalance = Zero

====
